---- MODULE Spec2Model ----
(***************************************************************************)
(* EduConnect backend: the Cognito JWT authentication layer (Flask         *)
(* decorator authenticate_jwt and FastAPI dependency get_current_user,     *)
(* with the JWKS cache they share in shape), the lesson-tab tracking       *)
(* blueprint, the series service (delete, subscribe, unsubscribe), the     *)
(* user profile routes and the proxy to the User Service.                  *)
(*                                                                         *)
(* Python's None is the string "None" for string-valued items, and the    *)
(* empty sequence <<>> for Optional values of another type (<<v>> is a     *)
(* present value v).                                                       *)
(***************************************************************************)
EXTENDS Integers, Sequences, FiniteSets, TLC

VARIABLES cfg, now, jwksCache, remoteJwks, authResp, jwksCall, tracking, trackResp,
          seriesCol, usersCol, snsTopics, mediaFiles, serieResp, userResp, proxyResp

\* The series and users collections, the SNS topics and the stored thumbnails,
\* and the answers of the series, users and proxy routes.
backendVars == <<seriesCol, usersCol, snsTopics, mediaFiles, serieResp, userResp, proxyResp>>

vars == <<cfg, now, jwksCache, remoteJwks, authResp, jwksCall, tracking, trackResp,
          backendVars>>

None == "None"

Idle == [op |-> "idle"]

\* Python truthiness of an Optional[str]: None and "" are falsy.
Truthy(v) == v # None /\ v # ""

\* Python's `a or b`.
Or(a, b) == IF Truthy(a) THEN a ELSE b

----------------------------------------------------------------------------
(* Bounds of the model *)

\* The clock runs from 0 to MaxTime.
MaxTime == 4

\* The tracking clock, in minutes, runs from 0 to MaxMinutes in steps of
\* MinutesStep.
MaxMinutes == 47

MinutesStep == 15

\* The JWKS_CACHE_TTL a deployment configures instead of the default, in clock
\* steps.
CacheTtl == 2

----------------------------------------------------------------------------
(* Configuration *)

DefaultCacheTtl == 86400

DefaultRegion == "ap-southeast-1"

AppClientId == "client-1"

\* Key ids of the pool: k1 from the start, k2 after a key rotation.
Kids == {"k1", "k2"}

\* The configurations the deployment can run with.  JWKS_CACHE_TTL holds the
\* integer the configured string denotes, <<>> when the variable is unset.
Configs ==
  [ framework             : {"flask", "fastapi"},
    COGNITO_JWKS_URL      : {None, "https://jwks.example/keys"},
    JWKS_URL              : {None},
    COGNITO_USER_POOL_ID  : {None, "pool-1"},
    COGNITO_POOL_ID       : {None},
    COGNITO_REGION        : {None},
    AWS_REGION            : {None},
    JWT_ISSUER            : {None, "https://issuer.example"},
    COGNITO_ISSUER        : {None},
    COGNITO_APP_CLIENT_ID : {None, AppClientId},
    ALLOW_INSECURE_JWT    : {None, "true", "True"},
    JWKS_CACHE_TTL        : {<<>>, <<CacheTtl>>} ]

\* The f-strings built from the one region and pool id of Configs.
PoolJwksUrl == "https://cognito-idp.ap-southeast-1.amazonaws.com/pool-1/.well-known/jwks.json"

PoolIssuer == "https://cognito-idp.ap-southeast-1.amazonaws.com/pool-1"

\* _get_config(key, default): the configured value, or the default when unset.
get_config(c, key, default) == IF c[key] = None THEN default ELSE c[key]

get_jwks_url(c) ==
  LET jwks_url == Or(get_config(c, "COGNITO_JWKS_URL", None), get_config(c, "JWKS_URL", None))
      pool_id  == Or(get_config(c, "COGNITO_USER_POOL_ID", None), get_config(c, "COGNITO_POOL_ID", None))
      region   == Or(get_config(c, "COGNITO_REGION", None), get_config(c, "AWS_REGION", DefaultRegion))
  IN  IF Truthy(jwks_url) THEN jwks_url
      ELSE IF Truthy(pool_id) /\ Truthy(region)
           THEN PoolJwksUrl
           ELSE None

get_issuer(c) ==
  LET issuer  == Or(get_config(c, "JWT_ISSUER", None), get_config(c, "COGNITO_ISSUER", None))
      pool_id == Or(get_config(c, "COGNITO_USER_POOL_ID", None), get_config(c, "COGNITO_POOL_ID", None))
      region  == Or(get_config(c, "COGNITO_REGION", None), get_config(c, "AWS_REGION", DefaultRegion))
  IN  IF Truthy(issuer) THEN issuer
      ELSE IF Truthy(pool_id) /\ Truthy(region)
           THEN PoolIssuer
           ELSE None

\* str(v).lower() on the values ALLOW_INSECURE_JWT takes.
Lower(s) == IF s \in {"True", "TRUE", "true"} THEN "true"
            ELSE IF s \in {"Yes", "YES", "yes"} THEN "yes"
            ELSE IF s \in {"No", "NO", "no"} THEN "no"
            ELSE s

\* allow_insecure with insecure mode on by default.
allow_insecure_default_on(c) ==
  Lower(get_config(c, "ALLOW_INSECURE_JWT", "true")) \in {"true", "1", "yes"}

allow_insecure(c) == Lower(get_config(c, "ALLOW_INSECURE_JWT", "false")) \in {"true", "1", "yes"}

----------------------------------------------------------------------------
(* Tokens *)

\* A token as the verification sees it.  defect is the one structural defect
\* of the token: an unparsable header, an unparsable payload, a signature that
\* does not verify under the key its kid names, or an exp in the past (beyond
\* JWT_LEEWAY).  A token whose header or payload cannot be parsed carries no
\* claims.
ClaimTokens ==
  { t \in [ defect    : {"none", "bad_sig", "expired"},
            kid       : {None, "k1", "k2"},
            iss       : {None, PoolIssuer, "https://issuer.example"},
            token_use : {None, "id", "access", "refresh"},
            aud       : {None, AppClientId, "client-2"},
            client_id : {None, AppClientId, "client-2"} ] :
      t.defect # "none" => t.kid = "k1" }

NoClaims(d, k) ==
  [defect |-> d, kid |-> k, iss |-> None, token_use |-> None, aud |-> None, client_id |-> None]

Tokens == ClaimTokens \cup {NoClaims("bad_header", None), NoClaims("bad_payload", "k1")}

NoToken == NoClaims("absent", None)

\* The Authorization header of a request: absent, of another scheme, "Bearer "
\* followed by nothing, or "Bearer <token>".
Headers == {"absent", "basic", "bearer_empty", "bearer"}

----------------------------------------------------------------------------
(* Lesson tracking: the current_lesson_tracking collection *)

Users == {"u1"}

Tabs == {"tabA", "tabB", "tabC"}

Lessons == {"l1", "l2"}

Series == {"s1"}

Titles == {None}

StaleMinutes == 30

\* The collection holds at most one document per user_id (unique index): <<>>
\* when the user has none, <<doc>> otherwise.
NoTracking == [u \in Users |-> <<>>]

\* tracking_collection.find_one({"user_id": user_id}); a user_id that is not a
\* user matches nothing.
find_one(coll, user_id) == IF user_id \in DOMAIN coll THEN coll[user_id] ELSE <<>>

\* The last entry of the list instead of the most recently active one.
last_entry(lessons) == lessons[Len(lessons)]

\* max(lessons, key=last_active): the first entry with the greatest last_active.
most_recent(lessons) ==
  lessons[CHOOSE i \in 1..Len(lessons) :
            /\ \A j \in 1..Len(lessons) : lessons[j].last_active <= lessons[i].last_active
            /\ \A j \in 1..(i - 1) : lessons[j].last_active < lessons[i].last_active]

\* The old entry of the tab is kept.
keep_all_tabs(active_lessons, tab_id) == active_lessons

\* [l for l in active_lessons if l.get("tab_id") != tab_id]
without_tab(active_lessons, tab_id) ==
  SelectSeq(active_lessons, LAMBDA l : l.tab_id # tab_id)

\* An entry that is exactly stale_minutes old is kept.
fresh_lessons_at_threshold(active_lessons, stale_threshold) ==
  SelectSeq(active_lessons, LAMBDA l : l.last_active >= stale_threshold)

\* The entries _cleanup_stale_tabs keeps: last_active after the threshold.
fresh_lessons(active_lessons, stale_threshold) ==
  SelectSeq(active_lessons, LAMBDA l : l.last_active > stale_threshold)

\* The write of _cleanup_stale_tabs for a document and its fresh entries.
cleanup_write(coll, user_id, doc, fresh, t) ==
  IF Len(doc.active_lessons) - Len(fresh) > 0
  THEN IF Len(fresh) = 0
       THEN [coll EXCEPT ![user_id] = <<>>]
       ELSE [coll EXCEPT ![user_id] =
               <<[doc EXCEPT !.active_lessons = fresh,
                             !.current_lesson = most_recent(fresh),
                             !.last_updated = t]>>]
  ELSE coll

\* The client that get_db builds hands stored datetimes back with their UTC
\* tzinfo, so that last_active compares with datetime.now(timezone.utc).
tz_aware == TRUE

\* _cleanup_stale_tabs(user_id, stale_minutes) at time t.  Comparing a datetime
\* without tzinfo with the threshold raises TypeError, which lines 81-82 log:
\* nothing is written then.
cleanup_stale_tabs(coll, user_id, stale_minutes, t) ==
  IF find_one(coll, user_id) = <<>> THEN coll
  ELSE IF ~tz_aware /\ Len(coll[user_id][1].active_lessons) > 0 THEN coll
  ELSE cleanup_write(coll, user_id, coll[user_id][1],
                     fresh_lessons(coll[user_id][1].active_lessons, t - stale_minutes), t)

\* not all([...]): some required field is None or empty.
missing(fields) == \E i \in DOMAIN fields : ~Truthy(fields[i])

TrackResult(status, coll) == [status |-> status, coll |-> coll]

\* The find_one / update_one / insert_one of enter_lesson after the cleanup.
enter_write(coll, user_id, new_lesson, t) ==
  IF find_one(coll, user_id) # <<>>
  THEN [coll EXCEPT ![user_id] =
          <<[coll[user_id][1] EXCEPT
               !.active_lessons = Append(without_tab(@, new_lesson.tab_id), new_lesson),
               !.current_lesson = new_lesson,
               !.last_updated = t]>>]
  ELSE [coll EXCEPT ![user_id] =
          <<[user_id |-> user_id, active_lessons |-> <<new_lesson>>,
             current_lesson |-> new_lesson, last_updated |-> t]>>]

\* enter_lesson once _cleanup_stale_tabs has returned: cleaned is the collection
\* the cleanup left, which the find_one of line 116 reads.
enter_after_cleanup(cleaned, user_id, new_lesson, t) ==
  [status |-> 200, coll |-> enter_write(cleaned, user_id, new_lesson, t),
   cleaned |-> cleaned]

enter_lesson(coll, t, user_id, lesson_id, serie_id, tab_id, lesson_title) ==
  IF missing(<<user_id, lesson_id, serie_id, tab_id>>)
  THEN TrackResult(400, coll)
  ELSE enter_after_cleanup(cleanup_stale_tabs(coll, user_id, StaleMinutes, t), user_id,
                           [lesson_id |-> lesson_id, serie_id |-> serie_id,
                            lesson_title |-> lesson_title, tab_id |-> tab_id,
                            last_active |-> t], t)

\* The delete_one / update_one of exit_lesson for the entries that remain.
exit_write(coll, user_id, remaining, t) ==
  IF Len(remaining) = 0
  THEN [coll EXCEPT ![user_id] = <<>>]
  ELSE [coll EXCEPT ![user_id] =
          <<[coll[user_id][1] EXCEPT !.active_lessons = remaining,
                                     !.current_lesson = most_recent(remaining),
                                     !.last_updated = t]>>]

exit_lesson(coll, t, user_id, tab_id) ==
  IF missing(<<user_id, tab_id>>) THEN TrackResult(400, coll)
  ELSE IF find_one(coll, user_id) = <<>> THEN TrackResult(200, coll)
  ELSE TrackResult(200,
         exit_write(coll, user_id, without_tab(coll[user_id][1].active_lessons, tab_id), t))

\* The index of the first entry of the tab, 0 when there is none.
first_of_tab(active_lessons, tab_id) ==
  IF \E i \in 1..Len(active_lessons) : active_lessons[i].tab_id = tab_id
  THEN CHOOSE i \in 1..Len(active_lessons) :
         /\ active_lessons[i].tab_id = tab_id
         /\ \A j \in 1..(i - 1) : active_lessons[j].tab_id # tab_id
  ELSE 0

\* The entry found is left as it was.
touch_nothing(active_lessons, i, t) == active_lessons

\* lesson["last_active"] = now on the entry found.
touch(active_lessons, i, t) == [active_lessons EXCEPT ![i].last_active = t]

\* The update_one of update_lesson_focus once the entry at index i is touched.
focus_write(coll, user_id, touched, i, t) ==
  [coll EXCEPT ![user_id] =
     <<[coll[user_id][1] EXCEPT !.active_lessons = touched,
                                !.current_lesson = touched[i],
                                !.last_updated = t]>>]

focus_found(coll, user_id, i, t) ==
  IF i = 0 THEN TrackResult(404, coll)
  ELSE TrackResult(200,
         focus_write(coll, user_id, touch(coll[user_id][1].active_lessons, i, t), i, t))

update_lesson_focus(coll, t, user_id, tab_id) ==
  IF missing(<<user_id, tab_id>>) THEN TrackResult(400, coll)
  ELSE IF find_one(coll, user_id) = <<>> THEN TrackResult(404, coll)
  ELSE focus_found(coll, user_id,
                   first_of_tab(coll[user_id][1].active_lessons, tab_id), t)

\* The request and its answer, with the collection as it was before, the time
\* of the request and the collection as the cleanup step left it (the
\* collection as it was, for a handler that ran no cleanup).
TrackAnswer(op, user_id, lesson_id, serie_id, tab_id, r) ==
  /\ trackResp' = [op |-> op, user_id |-> user_id, lesson_id |-> lesson_id,
                   serie_id |-> serie_id, tab_id |-> tab_id, status |-> r.status,
                   at |-> now, pre |-> tracking,
                   cleaned |-> IF "cleaned" \in DOMAIN r THEN r.cleaned ELSE tracking]
  /\ tracking' = r.coll

\* The values a field of the request body takes: one of S, or missing.
Field(S) == S \cup {None}

\* POST /api/v1/tracking/lesson/enter
EnterLesson ==
  /\ trackResp = Idle
  /\ \E user_id \in Field(Users), lesson_id \in Field(Lessons), serie_id \in Field(Series),
        tab_id \in Field(Tabs), lesson_title \in Titles :
       TrackAnswer("enter", user_id, lesson_id, serie_id, tab_id,
                   enter_lesson(tracking, now, user_id, lesson_id, serie_id, tab_id, lesson_title))
  /\ UNCHANGED <<cfg, now, jwksCache, remoteJwks, authResp, jwksCall>>
  /\ UNCHANGED backendVars

\* POST /api/v1/tracking/lesson/exit
ExitLesson ==
  /\ trackResp = Idle
  /\ \E user_id \in Field(Users), tab_id \in Field(Tabs) :
       TrackAnswer("exit", user_id, None, None, tab_id,
                   exit_lesson(tracking, now, user_id, tab_id))
  /\ UNCHANGED <<cfg, now, jwksCache, remoteJwks, authResp, jwksCall>>
  /\ UNCHANGED backendVars

\* POST /api/v1/tracking/lesson/focus
UpdateLessonFocus ==
  /\ trackResp = Idle
  /\ \E user_id \in Field(Users), tab_id \in Field(Tabs) :
       TrackAnswer("focus", user_id, None, None, tab_id,
                   update_lesson_focus(tracking, now, user_id, tab_id))
  /\ UNCHANGED <<cfg, now, jwksCache, remoteJwks, authResp, jwksCall>>
  /\ UNCHANGED backendVars

\* The response is sent.
TrackReply ==
  /\ trackResp # Idle
  /\ trackResp' = Idle
  /\ UNCHANGED <<cfg, now, jwksCache, remoteJwks, authResp, jwksCall, tracking>>
  /\ UNCHANGED backendVars

\* Minutes pass between two requests.
TickMinutes ==
  /\ trackResp = Idle
  /\ now + MinutesStep <= MaxMinutes
  /\ now' = now + MinutesStep
  /\ UNCHANGED <<cfg, jwksCache, remoteJwks, authResp, jwksCall, tracking, trackResp>>
  /\ UNCHANGED backendVars

----------------------------------------------------------------------------
(* JWKS cache *)

EmptyCache == [keys |-> <<>>, fetched_at |-> <<>>]

\* _fetch_jwks: the key list the pool serves, None when no URL is configured or
\* the request fails.  net is the outcome of requests.get.
fetch_jwks(c, net, remote) ==
  IF ~Truthy(get_jwks_url(c)) THEN <<>>
  ELSE IF net = "ok" THEN <<remote>> ELSE <<>>

cache_ttl(c) == IF c.JWKS_CACHE_TTL = <<>> THEN DefaultCacheTtl ELSE c.JWKS_CACHE_TTL[1]

\* The cache test with a list that has reached the TTL still served.
cache_fresh_inclusive(cache, t, c) ==
  /\ cache.keys # <<>>
  /\ cache.fetched_at # <<>>
  /\ (t - cache.fetched_at[1]) <= cache_ttl(c)

\* The cache test of _get_jwks_keys.
cache_fresh(cache, t, c) ==
  /\ cache.keys # <<>>
  /\ cache.fetched_at # <<>>
  /\ (t - cache.fetched_at[1]) < cache_ttl(c)

\* _get_jwks_keys at time t: the returned list, the cache afterwards, and a
\* record of the call.
store_fetched(cache, t, keys) ==
  IF keys # <<>> THEN [keys |-> keys, fetched_at |-> <<t>>] ELSE cache

\* The outcome of one call: what it returned, the cache afterwards, and a
\* record of the call (the cache before, whether it fetched and what it got).
KeysResult(t, pre, fetched, got, result, post) ==
  [result |-> result, cache |-> post,
   call |-> [at |-> t, pre |-> pre, fetched |-> fetched, got |-> got,
             result |-> result, post |-> post]]

after_fetch(cache, t, keys) ==
  KeysResult(t, cache, TRUE, keys, keys, store_fetched(cache, t, keys))

get_jwks_keys(cache, t, c, net, remote) ==
  IF cache_fresh(cache, t, c)
  THEN KeysResult(t, cache, FALSE, <<>>, cache.keys, cache)
  ELSE after_fetch(cache, t, fetch_jwks(c, net, remote))

\* _get_public_key: the key of the list whose kid matches (named by its kid),
\* None when there is no list, an empty list or no match.
find_key(kid, r) ==
  [key   |-> IF r.result = <<>> THEN None
             ELSE IF r.result[1] = {} THEN None
             ELSE IF kid \in r.result[1] THEN kid ELSE None,
   cache |-> r.cache,
   calls |-> <<r.call>>]

get_public_key(kid, cache, t, c, net, remote) ==
  find_key(kid, get_jwks_keys(cache, t, c, net, remote))

\* The key lookup of _verify_token: one lookup, and on a miss a second one
\* after clearing the cached keys.
after_retry(first, second) ==
  [key |-> second.key, cache |-> second.cache, calls |-> first.calls \o second.calls]

retry_lookup(kid, first, t, c, net2, remote) ==
  IF first.key # None THEN first
  ELSE after_retry(first,
         get_public_key(kid, [first.cache EXCEPT !.keys = <<>>], t, c, net2, remote))

lookup_key(kid, cache, t, c, net1, net2, remote) ==
  retry_lookup(kid, get_public_key(kid, cache, t, c, net1, remote), t, c, net2, remote)

----------------------------------------------------------------------------
(* Token verification *)

\* jwt.get_unverified_header(token): fails on a token whose header does not parse.
header_ok(token) == token.defect # "bad_header"

\* jwt.decode(token, options={'verify_signature': False}): only parses.
unverified_decode_ok(token) == token.defect \notin {"bad_header", "bad_payload"}

\* jwt.decode(token, key=public_key, algorithms=['RS256'], issuer=..., audience=...,
\* options=...): "ok" or the class of the exception raised.  issuer and audience
\* are None when the keyword is not passed.
jwt_decode(token, issuer, audience, verify_aud) ==
  IF token.defect = "bad_payload" THEN "DecodeError"
  ELSE IF token.defect = "bad_sig" THEN "InvalidSignatureError"
  ELSE IF token.defect = "expired" THEN "ExpiredSignatureError"
  ELSE IF issuer # None /\ token.iss = None THEN "MissingRequiredClaimError_iss"
  ELSE IF issuer # None /\ token.iss # issuer THEN "InvalidIssuerError"
  ELSE IF ~verify_aud THEN "ok"
  ELSE IF audience = None
       THEN (IF token.aud = None THEN "ok" ELSE "InvalidAudienceError")
  ELSE IF token.aud = None THEN "MissingRequiredClaimError_aud"
  ELSE IF token.aud # audience THEN "InvalidAudienceError"
  ELSE "ok"

\* The decode step of _verify_token with its decode_options: the issuer when one
\* is derived, the audience for an ID token when the app client id is set.
\* The except clause for MissingRequiredClaimError: a missing aud of an access
\* token is decoded again without the audience check.
decode_retry(token, token_use, issuer, first) ==
  IF first = "MissingRequiredClaimError_aud" /\ token_use = "access"
  THEN [err |-> jwt_decode(token, issuer, None, FALSE), retried |-> TRUE]
  ELSE [err |-> first, retried |-> FALSE]

decode_with(token, token_use, issuer, app_client_id) ==
  decode_retry(token, token_use, issuer,
    jwt_decode(token, issuer,
               IF token_use = "id" /\ Truthy(app_client_id) THEN app_client_id ELSE None,
               token_use = "id" /\ Truthy(app_client_id)))

decode_verified(token, c) ==
  decode_with(token,
              IF unverified_decode_ok(token) THEN token.token_use ELSE None,
              IF Truthy(get_issuer(c)) THEN get_issuer(c) ELSE None,
              get_config(c, "COGNITO_APP_CLIENT_ID", None))

\* The client_id check of _verify_token on the verified payload.
client_id_mismatch(token, c) ==
  /\ token.token_use = "access"
  /\ Truthy(get_config(c, "COGNITO_APP_CLIENT_ID", None))
  /\ Truthy(token.client_id)
  /\ token.client_id # get_config(c, "COGNITO_APP_CLIENT_ID", None)

\* The exception classes of PyJWT that authenticate_jwt tells apart; every other
\* one is caught as its base class InvalidTokenError.
FlaskException(err) ==
  IF err \in {"ExpiredSignatureError", "InvalidAudienceError", "InvalidIssuerError"}
  THEN err ELSE "InvalidTokenError"

\* _verify_token of the Flask middleware once the key lookup k and the decode d
\* are done.
flask_verdict(token, c, k, d) ==
  [exc   |-> IF k.key = None THEN "InvalidTokenError"
             ELSE IF d.err # "ok" THEN FlaskException(d.err)
             ELSE IF client_id_mismatch(token, c) THEN "InvalidAudienceError"
             ELSE IF Truthy(token.token_use) /\ token.token_use \notin {"id", "access"}
                  THEN "InvalidTokenError"
             ELSE "ok",
   cache |-> k.cache,
   calls |-> k.calls]

\* _verify_token of the Flask middleware: "ok" or the exception raised.
flask_verify_token(token, cache, t, c, net1, net2, remote) ==
  IF ~header_ok(token) THEN [exc |-> "InvalidTokenError", cache |-> cache, calls |-> <<>>]
  ELSE IF ~Truthy(token.kid) THEN [exc |-> "InvalidTokenError", cache |-> cache, calls |-> <<>>]
  ELSE flask_verdict(token, c, lookup_key(token.kid, cache, t, c, net1, net2, remote),
                     decode_verified(token, c))

\* _verify_token of the FastAPI dependency once the key lookup k and the decode
\* d are done.
fastapi_verdict(token, c, k, d) ==
  [status |-> IF k.key = None THEN 401
              ELSE IF d.retried /\ d.err # "ok" THEN 500
              ELSE IF d.err = "ExpiredSignatureError" THEN 403
              ELSE IF d.err # "ok" THEN 401
              ELSE IF client_id_mismatch(token, c) THEN 401
              ELSE 200,
   cache  |-> k.cache,
   calls  |-> k.calls]

\* _verify_token of the FastAPI dependency: 200 when the payload is returned,
\* else the status of the HTTPException raised (500 for an exception that escapes).
fastapi_verify_token(token, cache, t, c, net1, net2, remote) ==
  IF ~header_ok(token) THEN [status |-> 401, cache |-> cache, calls |-> <<>>]
  ELSE IF ~Truthy(token.kid) THEN [status |-> 401, cache |-> cache, calls |-> <<>>]
  ELSE fastapi_verdict(token, c, lookup_key(token.kid, cache, t, c, net1, net2, remote),
                       decode_verified(token, c))

----------------------------------------------------------------------------
(* The two authentication entry points *)

\* What a handler run leaves behind: the request, the response status, whether
\* the protected handler ran, which decode produced the payload ("insecure" for
\* the unverified decode, "secure" for _verify_token, "none" when none did), and
\* the cache afterwards with the _get_jwks_keys calls made.
AuthResult(fw, hdr, token, status, handler, path, cache, calls) ==
  [resp  |-> [op |-> "auth", framework |-> fw, hdr |-> hdr, token |-> token,
              status |-> status, handler |-> handler, path |-> path],
   cache |-> cache, calls |-> calls]

\* The status authenticate_jwt answers for an exception of _verify_token.
flask_status(exc) ==
  CASE exc = "ExpiredSignatureError" -> 403
    [] exc = "InvalidAudienceError"  -> 401
    [] exc = "InvalidIssuerError"    -> 401
    [] OTHER                         -> 403

\* The secure branch with the last except clause falling through to the handler.
flask_secure_fallthrough(hdr, token, v) ==
  IF v.exc \in {"ok", "InvalidTokenError"}
  THEN AuthResult("flask", hdr, token, 200, TRUE, "secure", v.cache, v.calls)
  ELSE AuthResult("flask", hdr, token, flask_status(v.exc), FALSE, "none", v.cache, v.calls)

\* The secure branch of authenticate_jwt on the outcome v of _verify_token.
flask_secure(hdr, token, v) ==
  IF v.exc = "ok"
  THEN AuthResult("flask", hdr, token, 200, TRUE, "secure", v.cache, v.calls)
  ELSE AuthResult("flask", hdr, token, flask_status(v.exc), FALSE, "none", v.cache, v.calls)

\* authenticate_jwt.decorated: _extract_token gives no token unless the header
\* is "Bearer " followed by a non-empty token.
authenticate_jwt(hdr, token, cache, t, c, net1, net2, remote) ==
  IF hdr # "bearer"
  THEN AuthResult("flask", hdr, token, 401, FALSE, "none", cache, <<>>)
  ELSE IF ~Truthy(get_jwks_url(c))
  THEN IF ~allow_insecure(c)
       THEN AuthResult("flask", hdr, token, 500, FALSE, "none", cache, <<>>)
       ELSE IF unverified_decode_ok(token)
       THEN AuthResult("flask", hdr, token, 200, TRUE, "insecure", cache, <<>>)
       ELSE AuthResult("flask", hdr, token, 401, FALSE, "none", cache, <<>>)
  ELSE flask_secure(hdr, token, flask_verify_token(token, cache, t, c, net1, net2, remote))

\* The last two lines of get_current_user on the outcome v of _verify_token.
fastapi_secure(hdr, token, v) ==
  IF v.status = 200
  THEN AuthResult("fastapi", hdr, token, 200, TRUE, "secure", v.cache, v.calls)
  ELSE AuthResult("fastapi", hdr, token, v.status, FALSE, "none", v.cache, v.calls)

\* get_current_user behind HTTPBearer(), which answers 403 itself unless the
\* header is "Bearer " followed by a non-empty token.
get_current_user(hdr, token, cache, t, c, net1, net2, remote) ==
  IF hdr # "bearer"
  THEN AuthResult("fastapi", hdr, token, 403, FALSE, "none", cache, <<>>)
  ELSE IF ~Truthy(get_jwks_url(c)) /\ allow_insecure(c)
  THEN IF unverified_decode_ok(token)
       THEN AuthResult("fastapi", hdr, token, 200, TRUE, "insecure", cache, <<>>)
       ELSE AuthResult("fastapi", hdr, token, 401, FALSE, "none", cache, <<>>)
  ELSE IF ~Truthy(get_jwks_url(c)) /\ ~allow_insecure(c)
  THEN AuthResult("fastapi", hdr, token, 500, FALSE, "none", cache, <<>>)
  ELSE fastapi_secure(hdr, token, fastapi_verify_token(token, cache, t, c, net1, net2, remote))

\* The requests that carry a token of T, and those that carry none.
Requests(T) ==
  [hdr : {"bearer"}, token : T] \cup [hdr : Headers \ {"bearer"}, token : {NoToken}]

Net == {"ok", "fail"}

\* The state after a handler run r.
Handled(r) ==
  /\ authResp' = r.resp
  /\ jwksCache' = r.cache
  /\ jwksCall' = r.calls

\* A request to a protected route of the Flask application.
AuthenticateJwtOn(T) ==
  /\ cfg.framework = "flask"
  /\ authResp = Idle
  /\ \E req \in Requests(T), net1 \in Net, net2 \in Net :
       Handled(authenticate_jwt(req.hdr, req.token, jwksCache, now, cfg, net1, net2, remoteJwks))
  /\ UNCHANGED <<cfg, now, remoteJwks, tracking, trackResp>>
  /\ UNCHANGED backendVars

AuthenticateJwt == AuthenticateJwtOn(Tokens)

\* A request to a protected route of the FastAPI application.
GetCurrentUserOn(T) ==
  /\ cfg.framework = "fastapi"
  /\ authResp = Idle
  /\ \E req \in Requests(T), net1 \in Net, net2 \in Net :
       Handled(get_current_user(req.hdr, req.token, jwksCache, now, cfg, net1, net2, remoteJwks))
  /\ UNCHANGED <<cfg, now, remoteJwks, tracking, trackResp>>
  /\ UNCHANGED backendVars

GetCurrentUser == GetCurrentUserOn(Tokens)

\* The response is sent; the process waits for the next request.
AuthReply ==
  /\ authResp # Idle
  /\ authResp' = Idle
  /\ jwksCall' = <<>>
  /\ UNCHANGED <<cfg, now, jwksCache, remoteJwks, tracking, trackResp>>
  /\ UNCHANGED backendVars

\* The state after a call r of _get_jwks_keys.
Called(r) ==
  /\ jwksCache' = r.cache
  /\ jwksCall' = <<r.call>>

\* A direct call of _get_jwks_keys.
GetJwksKeys ==
  /\ authResp = Idle
  /\ \E net \in Net :
       Called(get_jwks_keys(jwksCache, now, cfg, net, remoteJwks))
  /\ UNCHANGED <<cfg, now, remoteJwks, authResp, tracking, trackResp>>
  /\ UNCHANGED backendVars

\* The pool rotates its signing keys.
RotateKeys ==
  /\ authResp = Idle
  /\ \E ks \in SUBSET Kids : ks # remoteJwks /\ remoteJwks' = ks
  /\ UNCHANGED <<cfg, now, jwksCache, authResp, jwksCall, tracking, trackResp>>
  /\ UNCHANGED backendVars

\* Time passes.
Tick ==
  /\ authResp = Idle
  /\ now < MaxTime
  /\ now' = now + 1
  /\ UNCHANGED <<cfg, jwksCache, remoteJwks, authResp, jwksCall, tracking, trackResp>>
  /\ UNCHANGED backendVars

----------------------------------------------------------------------------
(* Series: the series and users collections, the SNS topics, the thumbnails *)

\* The serie_id of a request path: two spellings of one 24-digit hex string,
\* the hex string of a series that was never created, and a string that is no
\* ObjectId.
SerieIds == {"5fa1", "5FA1", "5fb2", "not-hex"}

\* ObjectId.is_valid(oid): a string of 24 hex digits of either case.
is_valid(oid) == oid \in {"5fa1", "5FA1", "5fb2"}

\* ObjectId(oid): the 12 bytes bytes.fromhex(oid) gives, written as str() writes
\* them, in lower case.
ObjectId(oid) == IF oid = "5FA1" THEN "5fa1" ELSE oid

SerieUsers == {"u1", "u2"}

\* g.user_email of the authenticated user.
Email(user_id) == IF user_id = "u1" THEN "u1@mail" ELSE "u2@mail"

\* The topic create_topic made for the series: an SNS topic, or the fake ARN
\* "arn:local:sns:..." of a deployment without AWS_REGION.
TopicArns == [local : BOOLEAN, name : {"serie_5fa1"}]

Thumbnails == {"", "thumb-5fa1"}

SerieLessons == {<<>>, <<"l1">>}

\* The empty series and users collections.
NoSeries == [o \in {"5fa1", "5fb2"} |-> <<>>]

NoUsers == [u \in SerieUsers |-> <<>>]

\* The stores the series service works on.
SerieState ==
  [series |-> seriesCol, users |-> usersCol, topics |-> snsTopics, files |-> mediaFiles]

\* What a call returned or raised, the stores it left, and the writes and
\* external calls it issued, in order.
SerieOutcome(ret, st, calls) == [ret |-> ret, st |-> st, calls |-> calls]

\* serie_id in user.get("serie_subcribe")
Contains(list, v) == \E i \in DOMAIN list : list[i] = v

\* {"$pull": {"serie_subcribe": serie_id}}
pull(list, v) == SelectSeq(list, LAMBDA x : x # v)

\* {"$addToSet": {"serie_subcribe": serie_id}}
addToSet(list, v) == IF Contains(list, v) THEN list ELSE Append(list, v)

\* MongoSerieRepository.find_by_id
find_by_id(series, serie_id) ==
  IF ~is_valid(serie_id) THEN <<>> ELSE find_one(series, ObjectId(serie_id))

\* user_col.update_many({"serie_subcribe": serie_id}, {"$pull": ...})
update_many_pull(users, serie_id) ==
  [u \in DOMAIN users |->
     IF users[u] = <<>> THEN <<>>
     ELSE <<[users[u][1] EXCEPT !.serie_subcribe = pull(@, serie_id)]>>]

\* sns.delete_topic for a topic that is not a fake one; sns_up is FALSE when
\* there is no client or the call raises, which delete_topic logs and ignores.
delete_topic(topics, arn, sns_up) ==
  IF sns_up /\ ~arn.local THEN topics \ {arn} ELSE topics

\* MongoSerieRepository.delete once the series document is found.
repo_delete_found(st, serie_id, serie, sns_up) ==
  IF Len(serie.serie_lessons) > 0
  THEN SerieOutcome("False", st, <<>>)
  ELSE SerieOutcome("True",
         [st EXCEPT !.users = update_many_pull(@, serie_id),
                    !.topics = IF serie.serie_sns # <<>>
                               THEN delete_topic(@, serie.serie_sns[1], sns_up) ELSE @,
                    !.series = [@ EXCEPT ![ObjectId(serie_id)] = <<>>]],
         <<"update_many">>
           \o (IF serie.serie_sns # <<>> THEN <<"delete_topic">> ELSE <<>>)
           \o <<"delete_one">>)

\* MongoSerieRepository.delete: ObjectId(serie_id) raises InvalidId for a
\* string that is no ObjectId.
repo_delete(st, serie_id, sns_up) ==
  IF ~is_valid(serie_id) THEN SerieOutcome("InvalidId", st, <<>>)
  ELSE IF find_one(st.series, ObjectId(serie_id)) = <<>>
  THEN SerieOutcome("ValueError", st, <<>>)
  ELSE repo_delete_found(st, serie_id, st.series[ObjectId(serie_id)][1], sns_up)

\* MediaServiceClient.delete_file: media_up is FALSE when the Media Service
\* does not carry the request out, which the client reports as False.
delete_file(files, url, media_up) == IF media_up THEN files \ {url} ELSE files

\* SerieService.delete_serie after the repository's delete returned r: serie is
\* the document find_by_id gave before.
delete_thumbnail(serie, r, media_up) ==
  IF r.ret = "True" /\ serie # <<>> /\ Truthy(serie[1].serie_thumbnail)
  THEN [r EXCEPT !.st.files = delete_file(@, serie[1].serie_thumbnail, media_up),
                 !.calls = Append(@, "delete_file")]
  ELSE r

\* SerieService.delete_serie: "False" is {"success": False, "warning": ...}.
delete_serie(st, serie_id, sns_up, media_up) ==
  delete_thumbnail(find_by_id(st.series, serie_id), repo_delete(st, serie_id, sns_up),
                   media_up)

\* The status of a series route for what the service returned or raised.
serie_status(ret) ==
  CASE ret = "ValueError" -> 404
    [] ret = "InvalidId" -> 500
    [] ret = "False" -> 400
    [] OTHER -> 200

\* user.get("serie_subcribe") and serie_id in user.get("serie_subcribe")
subscribed(list, serie_id) == Contains(list, serie_id)

\* MongoSerieRepository.subscribe_user once the series and the user are found.
subscribe_user_found(st, serie_id, user_id, user) ==
  IF subscribed(user.serie_subcribe, serie_id)
  THEN SerieOutcome("alreadySubscribed", st, <<>>)
  ELSE SerieOutcome("Subscribed",
         [st EXCEPT !.users[user_id] =
                       <<[user EXCEPT !.serie_subcribe = addToSet(@, serie_id)]>>,
                    !.series[ObjectId(serie_id)] =
                       <<[@[1] EXCEPT !.serie_subcribe_num = @ + 1]>>],
         <<"update_one", "update_one">>)

\* The series of a subscribe or unsubscribe exists and has a topic.
serie_with_topic(series, serie_id) ==
  /\ find_one(series, ObjectId(serie_id)) # <<>>
  /\ series[ObjectId(serie_id)][1].serie_sns # <<>>

\* MongoSerieRepository.subscribe_user
subscribe_user(st, serie_id, user_id) ==
  IF ~is_valid(serie_id) THEN SerieOutcome("InvalidId", st, <<>>)
  ELSE IF ~serie_with_topic(st.series, serie_id) THEN SerieOutcome("ValueError", st, <<>>)
  ELSE IF find_one(st.users, user_id) = <<>> THEN SerieOutcome("ValueError", st, <<>>)
  ELSE subscribe_user_found(st, serie_id, user_id, st.users[user_id][1])

\* SerieService.subscribe_serie after the repository returned r: serie is the
\* document find_by_id gives then.
subscribe_sns(r, serie) ==
  IF r.ret = "Subscribed" /\ serie # <<>> /\ serie[1].serie_sns # <<>>
  THEN [r EXCEPT !.calls = Append(@, "subscribe_to_serie")]
  ELSE r

\* SerieService.subscribe_serie
subscribe_serie(st, serie_id, user_id, user_email) ==
  subscribe_sns(subscribe_user(st, serie_id, user_id), find_by_id(st.series, serie_id))

\* MongoSerieRepository.unsubscribe_user once the series and the user are found.
unsubscribe_user_found(st, serie_id, user_id, user) ==
  IF ~subscribed(user.serie_subcribe, serie_id)
  THEN SerieOutcome("notSubscribed", st, <<>>)
  ELSE SerieOutcome("Unsubscribed",
         [st EXCEPT !.users[user_id] =
                       <<[user EXCEPT !.serie_subcribe = pull(@, serie_id)]>>,
                    !.series[ObjectId(serie_id)] =
                       <<[@[1] EXCEPT !.serie_subcribe_num = @ - 1]>>],
         <<"update_one", "update_one">>)

\* MongoSerieRepository.unsubscribe_user
unsubscribe_user(st, serie_id, user_id) ==
  IF ~is_valid(serie_id) THEN SerieOutcome("InvalidId", st, <<>>)
  ELSE IF ~serie_with_topic(st.series, serie_id) THEN SerieOutcome("ValueError", st, <<>>)
  ELSE IF find_one(st.users, user_id) = <<>> THEN SerieOutcome("ValueError", st, <<>>)
  ELSE unsubscribe_user_found(st, serie_id, user_id, st.users[user_id][1])

\* unsubscribe_from_topic(...).get("pendingConfirmation") for the series found:
\* SNS reports the subscription of the e-mail as pending confirmation, or
\* anything else (removed, not found, an error).
pending_confirmation(serie, sns_reply) ==
  /\ serie # <<>>
  /\ serie[1].serie_sns # <<>>
  /\ ~serie[1].serie_sns[1].local
  /\ sns_reply = "pending"

\* SerieService.unsubscribe_serie
unsubscribe_serie(st, serie_id, user_id, user_email, sns_reply) ==
  IF pending_confirmation(find_by_id(st.series, serie_id), sns_reply)
  THEN SerieOutcome("pendingConfirmation", st, <<>>)
  ELSE unsubscribe_user(st, serie_id, user_id)

\* The request and its answer, with the stores as they were before.
SerieAnswer(op, serie_id, user_id, status, r) ==
  /\ serieResp' = [op |-> op, serie_id |-> serie_id, user_id |-> user_id,
                   status |-> status, ret |-> r.ret, calls |-> r.calls,
                   pre |-> SerieState]
  /\ seriesCol' = r.st.series
  /\ usersCol' = r.st.users
  /\ snsTopics' = r.st.topics
  /\ mediaFiles' = r.st.files

\* A subscribe or unsubscribe route: 400 without g.user_sub or g.user_email.
UserRoute(op, serie_id, user_id, user_email, r) ==
  IF ~Truthy(user_id) \/ ~Truthy(user_email)
  THEN SerieAnswer(op, serie_id, user_id, 400, SerieOutcome("missing", SerieState, <<>>))
  ELSE SerieAnswer(op, serie_id, user_id, serie_status(r.ret), r)

\* g.user_email of a request: the user's address, or none in the token.
Emails(user_id) == IF user_id = None THEN {None} ELSE {Email(user_id), None}

\* POST /api/v1/series/<serie_id>/subscribe
SubscribeToSerie ==
  /\ serieResp = Idle
  /\ \E serie_id \in SerieIds, user_id \in Field(SerieUsers) :
       \E user_email \in Emails(user_id) :
         UserRoute("subscribe", serie_id, user_id, user_email,
                   subscribe_serie(SerieState, serie_id, user_id, user_email))
  /\ UNCHANGED <<cfg, now, jwksCache, remoteJwks, authResp, jwksCall, tracking, trackResp,
                 userResp, proxyResp>>

\* POST /api/v1/series/<serie_id>/unsubscribe
UnsubscribeFromSerie ==
  /\ serieResp = Idle
  /\ \E serie_id \in SerieIds, user_id \in Field(SerieUsers), sns_reply \in {"pending", "other"} :
       \E user_email \in Emails(user_id) :
         UserRoute("unsubscribe", serie_id, user_id, user_email,
                   unsubscribe_serie(SerieState, serie_id, user_id, user_email, sns_reply))
  /\ UNCHANGED <<cfg, now, jwksCache, remoteJwks, authResp, jwksCall, tracking, trackResp,
                 userResp, proxyResp>>

\* The DELETE route for what delete_serie returned or raised.
delete_serie_route(serie_id, r) ==
  SerieAnswer("delete", serie_id, None, serie_status(r.ret), r)

\* DELETE /api/v1/series/<serie_id>
DeleteSerieRoute ==
  /\ serieResp = Idle
  /\ \E serie_id \in SerieIds, sns_up \in BOOLEAN, media_up \in BOOLEAN :
       delete_serie_route(serie_id, delete_serie(SerieState, serie_id, sns_up, media_up))
  /\ UNCHANGED <<cfg, now, jwksCache, remoteJwks, authResp, jwksCall, tracking, trackResp,
                 userResp, proxyResp>>

\* The response is sent.
SerieReply ==
  /\ serieResp # Idle
  /\ serieResp' = Idle
  /\ UNCHANGED <<cfg, now, jwksCache, remoteJwks, authResp, jwksCall, tracking, trackResp,
                 seriesCol, usersCol, snsTopics, mediaFiles, userResp, proxyResp>>

----------------------------------------------------------------------------
(* User profiles: the users collection behind the Flask blueprint and the  *)
(* FastAPI router                                                          *)

ProfileNames == {"Ann", "Bob"}

ProfileEmails == {"ann@mail"}

Usernames == {"ann01"}

\* The JSON bodies of the profile routes: a key that is absent is None.
ProfileBodies ==
  [userId : Field(SerieUsers), name : Field(ProfileNames),
   email : Field(ProfileEmails), username : Field(Usernames)]

\* The bodies of PUT /api/v1/users/{user_id}: the fields of UserUpdate.
UpdateBodies ==
  [name : Field(ProfileNames), email : Field(ProfileEmails), username : Field(Usernames)]

\* data.get("email").split('@')[0]
email_prefix(email) == "ann"

\* What a route answered and the users collection it left.
UserOutcome(status, users) == [status |-> status, users |-> users]

\* MongoUserRepository.update: $set of the keys of data, with upsert.
repo_update(users, user_id, data) ==
  [users EXCEPT ![user_id] =
     <<[f \in {"name", "email", "username"} |->
          IF data[f] # None THEN data[f]
          ELSE IF users[user_id] = <<>> THEN None ELSE users[user_id][1][f]]>>]

\* The payload MongoUserRepository.create inserts.
payload(data) ==
  [name |-> data.name, email |-> data.email,
   username |-> IF data.username # None THEN data.username ELSE email_prefix(data.email)]

\* MongoUserRepository.create: "raised" for the ValueError of a missing userId
\* and for the AttributeError of data.get("email").split when there is no email.
repo_create(users, data) ==
  IF ~Truthy(data.userId) THEN UserOutcome("raised", users)
  ELSE IF find_one(users, data.userId) # <<>>
  THEN UserOutcome("returned", repo_update(users, data.userId, data))
  ELSE IF data.email = None THEN UserOutcome("raised", users)
  ELSE UserOutcome("returned", [users EXCEPT ![data.userId] = <<payload(data)>>])

\* The answer of a create route for what create_user returned or raised.
create_answer(r) == UserOutcome(IF r.status = "raised" THEN 500 ELSE 201, r.users)

\* create_profile of the Flask blueprint.
flask_create_profile(users, user_data) ==
  IF ~Truthy(user_data.userId) THEN UserOutcome(400, users)
  ELSE IF find_one(users, user_data.userId) # <<>> THEN UserOutcome(409, users)
  ELSE create_answer(repo_create(users, user_data))

\* UserCreate: userId, name, email and username are required.
user_create_valid(user_data) ==
  /\ user_data.userId # None
  /\ user_data.name # None
  /\ user_data.email # None
  /\ user_data.username # None

\* create_profile of the FastAPI router: the HTTPException(409) is raised
\* inside the try and caught by `except Exception`, which raises a 500.
fastapi_create_profile(users, user_data) ==
  IF ~user_create_valid(user_data) THEN UserOutcome(422, users)
  ELSE IF find_one(users, user_data.userId) # <<>> THEN UserOutcome(500, users)
  ELSE create_answer(repo_create(users, user_data))

\* update_user_profile of the Flask blueprint.
flask_update_user_profile(users, caller, user_id, data) ==
  IF find_one(users, user_id) = <<>> THEN UserOutcome(404, users)
  ELSE UserOutcome(200, repo_update(users, user_id, data))

\* update_user_profile of the FastAPI router.
fastapi_update_user_profile(users, caller, user_id, user_data) ==
  IF caller # user_id THEN UserOutcome(403, users)
  ELSE IF find_one(users, user_id) = <<>> THEN UserOutcome(404, users)
  ELSE UserOutcome(200, repo_update(users, user_id, user_data))

\* The request and its answer, with the users collection as it was before.
UserAnswer(op, framework, caller, user_id, body, r) ==
  /\ userResp' = [op |-> op, framework |-> framework, caller |-> caller,
                  user_id |-> user_id, body |-> body, status |-> r.status,
                  pre |-> usersCol]
  /\ usersCol' = r.users

\* POST /api/v1/users/profile of the Flask blueprint, by an authenticated user.
FlaskCreateProfile ==
  /\ userResp = Idle
  /\ \E caller \in SerieUsers, user_data \in ProfileBodies :
       UserAnswer("create", "flask", caller, user_data.userId, user_data,
                  flask_create_profile(usersCol, user_data))
  /\ UNCHANGED <<cfg, now, jwksCache, remoteJwks, authResp, jwksCall, tracking, trackResp,
                 seriesCol, snsTopics, mediaFiles, serieResp, proxyResp>>

\* POST /api/v1/users/profile of the FastAPI router, which names no dependency:
\* the caller is anyone.
FastapiCreateProfile ==
  /\ userResp = Idle
  /\ \E user_data \in ProfileBodies :
       UserAnswer("create", "fastapi", None, user_data.userId, user_data,
                  fastapi_create_profile(usersCol, user_data))
  /\ UNCHANGED <<cfg, now, jwksCache, remoteJwks, authResp, jwksCall, tracking, trackResp,
                 seriesCol, snsTopics, mediaFiles, serieResp, proxyResp>>

\* PUT /api/v1/users/<user_id> of the Flask blueprint, by an authenticated user.
FlaskUpdateUserProfile ==
  /\ userResp = Idle
  /\ \E caller \in SerieUsers, user_id \in SerieUsers, data \in UpdateBodies :
       UserAnswer("update", "flask", caller, user_id, data,
                  flask_update_user_profile(usersCol, caller, user_id, data))
  /\ UNCHANGED <<cfg, now, jwksCache, remoteJwks, authResp, jwksCall, tracking, trackResp,
                 seriesCol, snsTopics, mediaFiles, serieResp, proxyResp>>

\* PUT /api/v1/users/{user_id} of the FastAPI router, by an authenticated user.
FastapiUpdateUserProfile ==
  /\ userResp = Idle
  /\ \E caller \in SerieUsers, user_id \in SerieUsers, user_data \in UpdateBodies :
       UserAnswer("update", "fastapi", caller, user_id, user_data,
                  fastapi_update_user_profile(usersCol, caller, user_id, user_data))
  /\ UNCHANGED <<cfg, now, jwksCache, remoteJwks, authResp, jwksCall, tracking, trackResp,
                 seriesCol, snsTopics, mediaFiles, serieResp, proxyResp>>

\* The response is sent.
UserReply ==
  /\ userResp # Idle
  /\ userResp' = Idle
  /\ UNCHANGED <<cfg, now, jwksCache, remoteJwks, authResp, jwksCall, tracking, trackResp,
                 seriesCol, usersCol, snsTopics, mediaFiles, serieResp, proxyResp>>

----------------------------------------------------------------------------
(* The proxy of /api/v1/users/* to the User Service *)

ProxyMethods == {"GET", "POST", "PUT", "PATCH", "DELETE", "OPTIONS"}

\* The sub-path after /api/v1/users/ and the query string of a request.
ProxyPaths == {"", "profile"}

QueryStrings == {"", "page=2"}

\* The bodies of a request: none, JSON bytes, an urlencoded form, a multipart
\* form without files and a multipart form with a file.
ProxyBodies == {"", "json", "urlencoded", "multipart-form", "multipart-files"}

\* The header names of a request whose body is given: Host always, Content-Type
\* and Content-Length with a body, the others as the client chooses.
RequestHeaders(body) ==
  {{"Host"} \cup (IF body = "" THEN {} ELSE {"Content-Type", "Content-Length"}) \cup h :
     h \in SUBSET {"Connection", "Authorization"}}

\* What requests.request comes to: a response of the User Service with its
\* status, or an exception.
UpstreamStatus == {200, 404}

Upstream ==
  [kind : {"response"}, status_code : UpstreamStatus]
    \cup [kind : {"ConnectionError", "ConnectTimeout", "ReadTimeout", "Exception"},
          status_code : {0}]

\* key.lower() not in ['host', 'connection', 'content-length']
forwarded_headers(headers) == headers \ {"Host", "Connection", "Content-Length"}

\* request.files is not empty.
has_files(body) == body = "multipart-files"

\* request.get_data() after request.files was read: the form parser has
\* consumed the stream of an urlencoded or multipart body.
get_data(body) == IF body \in {"urlencoded", "multipart-form"} THEN "" ELSE body

\* The body requests sends for data and files: nothing for GET, DELETE and
\* OPTIONS, the files and form fields encoded anew for an upload, the bytes of
\* get_data otherwise.
forwarded_body(method, body) ==
  IF method \notin {"POST", "PUT", "PATCH"} THEN ""
  ELSE IF has_files(body) THEN "multipart-files-reencoded"
  ELSE get_data(body)

\* The headers passed to requests: Content-Type is removed for an upload.
proxy_headers(method, body, headers) ==
  IF method \in {"POST", "PUT", "PATCH"} /\ has_files(body)
  THEN forwarded_headers(headers) \ {"Content-Type"}
  ELSE forwarded_headers(headers)

\* The except clauses, in their order: ConnectTimeout is a ConnectionError
\* and a Timeout, and the ConnectionError clause comes first.
proxy_status(upstream) ==
  IF upstream.kind = "response" THEN upstream.status_code
  ELSE IF upstream.kind \in {"ConnectionError", "ConnectTimeout"} THEN 503
  ELSE IF upstream.kind = "ReadTimeout" THEN 504
  ELSE 500

\* The body of the answer: response.content, or the proxy's own message.
proxy_content(upstream) ==
  IF upstream.kind = "response" THEN "upstream-content" ELSE "proxy-message"

\* proxy_to_user_service(path): the call of requests.request and the answer.
proxy_to_user_service(method, path, query, headers, body, upstream) ==
  [op |-> "proxy",
   request |-> [method |-> method, path |-> path, query |-> query,
                headers |-> headers, body |-> body],
   forwarded |-> [method |-> method, path |-> path, query |-> query,
                  headers |-> proxy_headers(method, body, headers),
                  body |-> forwarded_body(method, body)],
   upstream |-> upstream,
   status |-> proxy_status(upstream),
   content |-> proxy_content(upstream)]

\* Any request under /api/v1/users/
ProxyToUserService ==
  /\ proxyResp = Idle
  /\ \E method \in ProxyMethods, path \in ProxyPaths, query \in QueryStrings,
        body \in ProxyBodies, upstream \in Upstream :
       \E headers \in RequestHeaders(body) :
         proxyResp' = proxy_to_user_service(method, path, query, headers, body, upstream)
  /\ UNCHANGED <<cfg, now, jwksCache, remoteJwks, authResp, jwksCall, tracking, trackResp,
                 seriesCol, usersCol, snsTopics, mediaFiles, serieResp, userResp>>

\* The response is sent.
ProxyReply ==
  /\ proxyResp # Idle
  /\ proxyResp' = Idle
  /\ UNCHANGED <<cfg, now, jwksCache, remoteJwks, authResp, jwksCall, tracking, trackResp,
                 seriesCol, usersCol, snsTopics, mediaFiles, serieResp, userResp>>

\* The series, users and proxy routes are not exercised.
BackendUnused ==
  /\ seriesCol = NoSeries
  /\ usersCol = NoUsers
  /\ snsTopics = {}
  /\ mediaFiles = {}
  /\ serieResp = Idle
  /\ userResp = Idle
  /\ proxyResp = Idle

\* The authentication layer and the tracking blueprint are not exercised.
FrontUnused ==
  /\ cfg \in {c \in Configs : /\ c.framework = "flask"
                              /\ c.COGNITO_JWKS_URL = None
                              /\ c.COGNITO_USER_POOL_ID # None
                              /\ c.JWT_ISSUER = None
                              /\ c.COGNITO_APP_CLIENT_ID = AppClientId
                              /\ c.ALLOW_INSECURE_JWT = None
                              /\ c.JWKS_CACHE_TTL = <<>>}
  /\ now = 0
  /\ jwksCache = EmptyCache
  /\ remoteJwks = {"k1"}
  /\ authResp = Idle
  /\ jwksCall = <<>>
  /\ tracking = NoTracking
  /\ trackResp = Idle

----------------------------------------------------------------------------
(* The specifications *)

InitAuth ==
  /\ cfg \in {c \in Configs : c.JWKS_CACHE_TTL = <<>>}
  /\ now = 0
  /\ jwksCache = EmptyCache
  /\ remoteJwks = {"k1"}
  /\ authResp = Idle
  /\ jwksCall = <<>>
  /\ tracking = NoTracking
  /\ trackResp = Idle
  /\ BackendUnused

NextAuth == AuthenticateJwt \/ GetCurrentUser \/ AuthReply

SpecAuth == InitAuth /\ [][NextAuth]_vars

\* Well-formed access tokens of the pool that differ in their kid only.
KeyTokens ==
  { t \in Tokens : /\ t.defect = "none"
                   /\ t.iss = PoolIssuer
                   /\ t.token_use = "access"
                   /\ t.aud = None
                   /\ t.client_id = AppClientId }

\* The deployments configured from the pool id, with the default and with a
\* short cache TTL.
InitJwks ==
  /\ cfg \in {c \in Configs : /\ c.COGNITO_JWKS_URL = None
                              /\ c.COGNITO_USER_POOL_ID # None
                              /\ c.JWT_ISSUER = None
                              /\ c.COGNITO_APP_CLIENT_ID = AppClientId
                              /\ c.ALLOW_INSECURE_JWT = None}
  /\ now = 0
  /\ jwksCache = EmptyCache
  /\ remoteJwks = {"k1"}
  /\ authResp = Idle
  /\ jwksCall = <<>>
  /\ tracking = NoTracking
  /\ trackResp = Idle
  /\ BackendUnused

NextJwks ==
  \/ Tick
  \/ RotateKeys
  \/ GetJwksKeys
  \/ AuthenticateJwtOn(KeyTokens)
  \/ GetCurrentUserOn(KeyTokens)
  \/ AuthReply

SpecJwks == InitJwks /\ [][NextJwks]_vars

\* The tracking blueprint over an empty collection.
InitTracking ==
  /\ cfg \in {c \in Configs : /\ c.framework = "flask"
                              /\ c.COGNITO_JWKS_URL = None
                              /\ c.COGNITO_USER_POOL_ID # None
                              /\ c.JWT_ISSUER = None
                              /\ c.COGNITO_APP_CLIENT_ID = AppClientId
                              /\ c.ALLOW_INSECURE_JWT = None
                              /\ c.JWKS_CACHE_TTL = <<>>}
  /\ now = 0
  /\ jwksCache = EmptyCache
  /\ remoteJwks = {"k1"}
  /\ authResp = Idle
  /\ jwksCall = <<>>
  /\ tracking = NoTracking
  /\ trackResp = Idle
  /\ BackendUnused

NextTracking == EnterLesson \/ ExitLesson \/ UpdateLessonFocus \/ TrackReply \/ TickMinutes

SpecTracking == InitTracking /\ [][NextTracking]_vars

\* The series 5fa1 as create left it (with or without lessons, a topic and a
\* thumbnail) or not created, no subscriber yet; u1 has a users document and
\* u2 may have none.
InitSeries ==
  /\ FrontUnused
  /\ \E created \in BOOLEAN, lessons \in SerieLessons, thumb \in Thumbnails,
        sns \in {<<>>} \cup {<<a>> : a \in TopicArns} :
       /\ seriesCol = [NoSeries EXCEPT !["5fa1"] =
                         IF created
                         THEN <<[serie_lessons |-> lessons, serie_sns |-> sns,
                                 serie_thumbnail |-> thumb, serie_subcribe_num |-> 0]>>
                         ELSE <<>>]
       /\ snsTopics = IF created THEN {a \in TopicArns : sns = <<a>> /\ ~a.local} ELSE {}
       /\ mediaFiles = IF created /\ thumb # "" THEN {thumb} ELSE {}
  /\ \E u2 \in {<<>>, <<[serie_subcribe |-> <<>>]>>} :
       usersCol = [NoUsers EXCEPT !["u1"] = <<[serie_subcribe |-> <<>>]>>, !["u2"] = u2]
  /\ serieResp = Idle
  /\ userResp = Idle
  /\ proxyResp = Idle

NextSeries == SubscribeToSerie \/ UnsubscribeFromSerie \/ DeleteSerieRoute \/ SerieReply

SpecSeries == InitSeries /\ [][NextSeries]_vars

\* No profile is stored yet.
InitUsers ==
  /\ FrontUnused
  /\ BackendUnused

NextUsers ==
  \/ FlaskCreateProfile
  \/ FastapiCreateProfile
  \/ FlaskUpdateUserProfile
  \/ FastapiUpdateUserProfile
  \/ UserReply

SpecUsers == InitUsers /\ [][NextUsers]_vars

InitProxy ==
  /\ FrontUnused
  /\ BackendUnused

NextProxy == ProxyToUserService \/ ProxyReply

SpecProxy == InitProxy /\ [][NextProxy]_vars

----------------------------------------------------------------------------
(* Properties of the authentication layer *)

\* A response has been produced and the protected handler ran.
HandlerRan == authResp # Idle /\ authResp.handler

\* The handler ran on a payload returned by _verify_token.
SecureAccepted == HandlerRan /\ authResp.path = "secure"

JwksConfigured == get_jwks_url(cfg) \notin {None, ""}

\* C1: in authenticate_jwt and in get_current_user the protected handler runs
\* only for a request that carried a Bearer token which decoded: with a JWKS URL
\* configured through _verify_token (the token parses, names a key of the cached
\* key list, is signed by it and has not expired), without one through the
\* unverified decode of insecure mode (the token parses).  Every other request
\* is answered 401, 403 or 500 and the handler does not run.
C1_HandlerOnlyAfterDecode ==
  authResp # Idle =>
    /\ authResp.handler =>
          /\ authResp.status = 200
          /\ authResp.hdr = "bearer"
          /\ authResp.token.defect \notin {"absent", "bad_header", "bad_payload"}
          /\ IF JwksConfigured
             THEN /\ authResp.path = "secure"
                  /\ authResp.token.defect = "none"
                  /\ authResp.token.kid # None
                  /\ jwksCache.keys # <<>>
                  /\ authResp.token.kid \in jwksCache.keys[1]
             ELSE authResp.path = "insecure"
    /\ ~authResp.handler =>
          /\ authResp.status \in {401, 403, 500}
          /\ authResp.path = "none"

\* Witness of C1: the FastAPI dependency let the handler run on a verified token.
C1_Witness == SecureAccepted /\ authResp.framework = "fastapi"

\* The literal values of ALLOW_INSECURE_JWT that C2 names.
InsecureLiterals == {"true", "1", "yes"}

\* C2 as stated: the unverified decode is used only when no JWKS URL can be
\* derived and ALLOW_INSECURE_JWT is 'true', '1' or 'yes'; with a JWKS URL every
\* accepted token passed _verify_token; with no JWKS URL and ALLOW_INSECURE_JWT
\* not one of these values a request with a token is answered 500.
C2_AsStated ==
  authResp # Idle =>
    /\ authResp.path = "insecure" =>
          ~JwksConfigured /\ cfg.ALLOW_INSECURE_JWT \in InsecureLiterals
    /\ (JwksConfigured /\ authResp.handler) => authResp.path = "secure"
    /\ (~JwksConfigured /\ cfg.ALLOW_INSECURE_JWT \notin InsecureLiterals
          /\ authResp.hdr = "bearer") => authResp.status = 500

\* ALLOW_INSECURE_JWT switches insecure mode on: its value, lower-cased, is
\* 'true', '1' or 'yes'.
InsecureOn ==
  cfg.ALLOW_INSECURE_JWT # None /\ Lower(cfg.ALLOW_INSECURE_JWT) \in InsecureLiterals

\* C2 (amended): the unverified decode is used only when no JWKS URL can be
\* derived and ALLOW_INSECURE_JWT, compared case-insensitively, is 'true', '1'
\* or 'yes' (unset counts as false); with a JWKS URL every accepted token
\* passed _verify_token whatever ALLOW_INSECURE_JWT is; with no JWKS URL and
\* insecure mode off a request carrying a Bearer token is answered 500 and the
\* handler does not run.
C2_InsecureOnlyWhenAllowed ==
  authResp # Idle =>
    /\ authResp.path = "insecure" => (~JwksConfigured /\ InsecureOn)
    /\ (JwksConfigured /\ authResp.handler) =>
          (authResp.path = "secure" /\ authResp.token.defect = "none")
    /\ (~JwksConfigured /\ ~InsecureOn /\ authResp.hdr = "bearer") =>
          (authResp.status = 500 /\ ~authResp.handler)

\* Witness of C2: a token whose signature does not verify is accepted in
\* insecure mode.
C2_Witness ==
  /\ HandlerRan
  /\ authResp.path = "insecure"
  /\ authResp.token.defect = "bad_sig"

\* The TTL in force, read from the configuration.
TtlInForce == IF cfg.JWKS_CACHE_TTL = <<>> THEN 86400 ELSE cfg.JWKS_CACHE_TTL[1]

\* What C3 says of one call of _get_jwks_keys.
CallRespectsTtl(call) ==
  LET cached == /\ call.pre.keys # <<>>
                /\ call.pre.fetched_at # <<>>
                /\ call.at - call.pre.fetched_at[1] < TtlInForce
  IN  /\ call.fetched <=> ~cached
      /\ ~call.fetched => (call.result = call.pre.keys /\ call.post = call.pre)
      /\ call.result # <<>> =>
            /\ call.post.keys = call.result
            /\ call.post.fetched_at # <<>>
            /\ call.at - call.post.fetched_at[1] < TtlInForce
      /\ (call.fetched /\ call.got # <<>>) =>
            /\ call.result = call.got
            /\ call.post = [keys |-> call.got, fetched_at |-> <<call.at>>]

\* C3: _get_jwks_keys returns the cached key list without fetching exactly when
\* keys and fetched_at are both set and fewer than JWKS_CACHE_TTL seconds have
\* passed since fetched_at, and fetches otherwise; the list it returns is never
\* older than the TTL, and a successful fetch stores the fetched keys with the
\* time of the call.
C3_CacheTtl ==
  /\ \A i \in DOMAIN jwksCall : CallRespectsTtl(jwksCall[i])
  /\ jwksCache.keys # <<>> => jwksCache.fetched_at # <<>>

\* Witness of C3: a call made when the cached list had reached the TTL fetched
\* a new list and stored it with the time of the call.
C3_Witness ==
  \E i \in DOMAIN jwksCall :
    /\ jwksCall[i].pre.keys # <<>>
    /\ jwksCall[i].pre.fetched_at # <<>>
    /\ jwksCall[i].at - jwksCall[i].pre.fetched_at[1] = TtlInForce
    /\ jwksCall[i].fetched
    /\ jwksCall[i].got # <<>>
    /\ jwksCall[i].got # jwksCall[i].pre.keys

\* C4: every token _verify_token accepts carries an iss claim equal to the
\* expected issuer.
C4_IssuerAlwaysChecked ==
  SecureAccepted =>
    /\ authResp.token.iss # None
    /\ authResp.token.iss = get_issuer(cfg)

\* C5: _verify_token accepts a token whose token_use is 'id' only if its aud
\* claim is present and equals COGNITO_APP_CLIENT_ID.
C5_IdTokenAudience ==
  (SecureAccepted /\ authResp.token.token_use = "id") =>
    /\ authResp.token.aud # None
    /\ authResp.token.aud = cfg.COGNITO_APP_CLIENT_ID

\* C6: when COGNITO_APP_CLIENT_ID is configured, _verify_token accepts a token
\* whose token_use is 'access' only if its client_id claim equals
\* COGNITO_APP_CLIENT_ID, and a request it refuses for its client_id is
\* answered 401.
C6_AccessTokenClientId ==
  /\ (SecureAccepted /\ authResp.token.token_use = "access"
        /\ cfg.COGNITO_APP_CLIENT_ID # None) =>
       authResp.token.client_id = cfg.COGNITO_APP_CLIENT_ID
  /\ (authResp # Idle /\ authResp.hdr = "bearer" /\ JwksConfigured
        /\ authResp.token.token_use = "access"
        /\ authResp.token.defect = "none"
        /\ jwksCache.keys # <<>> /\ authResp.token.kid \in jwksCache.keys[1]
        /\ (get_issuer(cfg) # None => authResp.token.iss = get_issuer(cfg))
        /\ cfg.COGNITO_APP_CLIENT_ID # None
        /\ authResp.token.client_id \notin {None, cfg.COGNITO_APP_CLIENT_ID}) =>
       (authResp.status = 401 /\ ~authResp.handler)

\* C7: in the Flask middleware and in the FastAPI dependency alike,
\* _verify_token accepts a token only if its token_use claim is 'id' or
\* 'access'.
C7_TokenUseValidated ==
  SecureAccepted => authResp.token.token_use \in {"id", "access"}

----------------------------------------------------------------------------
(* Properties of lesson tracking *)

\* The entries of a list of lessons.
Entries(lessons) == {lessons[i] : i \in DOMAIN lessons}

\* The entries of the user's document in a collection, none without a document.
EntriesOf(coll, user_id) ==
  IF coll[user_id] = <<>> THEN {} ELSE Entries(coll[user_id][1].active_lessons)

\* How many entries of the user's document belong to the tab.
CountOfTab(coll, user_id, tab_id) ==
  IF coll[user_id] = <<>> THEN 0
  ELSE Cardinality({i \in DOMAIN coll[user_id][1].active_lessons :
                      coll[user_id][1].active_lessons[i].tab_id = tab_id})

Answered(op) == trackResp # Idle /\ trackResp.op = op

\* C8: a request to enter_lesson that lacks user_id, lesson_id, serie_id or
\* tab_id is answered 400 and changes nothing.  Every other one succeeds, and
\* then the user's document exists, exactly one entry of active_lessons has the
\* tab_id, it records the lesson_id and serie_id of the request, current_lesson
\* is that entry, and every entry of another tab that was active within the
\* last 30 minutes is still there unchanged.
C8_EnterLesson ==
  Answered("enter") =>
    IF None \in {trackResp.user_id, trackResp.lesson_id, trackResp.serie_id, trackResp.tab_id}
    THEN trackResp.status = 400 /\ tracking = trackResp.pre
    ELSE /\ trackResp.status = 200
         /\ tracking[trackResp.user_id] # <<>>
         /\ CountOfTab(tracking, trackResp.user_id, trackResp.tab_id) = 1
         /\ tracking[trackResp.user_id][1].current_lesson.tab_id = trackResp.tab_id
         /\ tracking[trackResp.user_id][1].current_lesson.lesson_id = trackResp.lesson_id
         /\ tracking[trackResp.user_id][1].current_lesson.serie_id = trackResp.serie_id
         /\ tracking[trackResp.user_id][1].current_lesson
               \in EntriesOf(tracking, trackResp.user_id)
         /\ \A e \in EntriesOf(trackResp.pre, trackResp.user_id) :
               (e.tab_id # trackResp.tab_id /\ e.last_active > trackResp.at - 30) =>
                 /\ e \in EntriesOf(tracking, trackResp.user_id)
                 /\ CountOfTab(tracking, trackResp.user_id, e.tab_id) = 1

\* Witness of C8: a tab that showed one lesson entered another one while a
\* second tab was active less than 30 minutes ago.
C8_Witness ==
  /\ Answered("enter")
  /\ trackResp.status = 200
  /\ \E e \in EntriesOf(trackResp.pre, trackResp.user_id) :
       e.tab_id = trackResp.tab_id /\ e.lesson_id # trackResp.lesson_id
  /\ \E e \in EntriesOf(trackResp.pre, trackResp.user_id) :
       /\ e.tab_id # trackResp.tab_id
       /\ e.last_active > trackResp.at - 30
       /\ e.last_active < trackResp.at

\* C9: exit_lesson with user_id and tab_id reports success.  For a user with
\* no tracking document nothing changes.  Otherwise no entry of the tab is
\* left, the entries of the other tabs are exactly those of before, unchanged;
\* when none is left the document is deleted, else current_lesson is one of the
\* remaining entries and none of them has a greater last_active.
C9_ExitLesson ==
  (Answered("exit") /\ None \notin {trackResp.user_id, trackResp.tab_id}) =>
    /\ trackResp.status = 200
    /\ IF trackResp.pre[trackResp.user_id] = <<>>
       THEN tracking = trackResp.pre
       ELSE /\ CountOfTab(tracking, trackResp.user_id, trackResp.tab_id) = 0
            /\ EntriesOf(tracking, trackResp.user_id)
                 = {e \in EntriesOf(trackResp.pre, trackResp.user_id) :
                      e.tab_id # trackResp.tab_id}
            /\ \A tab \in Tabs \ {trackResp.tab_id} :
                 CountOfTab(tracking, trackResp.user_id, tab)
                   = CountOfTab(trackResp.pre, trackResp.user_id, tab)
            /\ (tracking[trackResp.user_id] = <<>>)
                 <=> (EntriesOf(tracking, trackResp.user_id) = {})
            /\ tracking[trackResp.user_id] # <<>> =>
                 /\ tracking[trackResp.user_id][1].current_lesson
                       \in EntriesOf(tracking, trackResp.user_id)
                 /\ \A e \in EntriesOf(tracking, trackResp.user_id) :
                       e.last_active
                         <= tracking[trackResp.user_id][1].current_lesson.last_active

\* Witness of C9: the current tab exits while two other tabs remain, and the
\* one that becomes current is not the last of the list.
C9_Witness ==
  /\ Answered("exit")
  /\ trackResp.status = 200
  /\ trackResp.pre[trackResp.user_id] # <<>>
  /\ trackResp.pre[trackResp.user_id][1].current_lesson.tab_id = trackResp.tab_id
  /\ tracking[trackResp.user_id] # <<>>
  /\ Len(tracking[trackResp.user_id][1].active_lessons) = 2
  /\ tracking[trackResp.user_id][1].active_lessons[2].last_active
       < tracking[trackResp.user_id][1].current_lesson.last_active

\* C10: update_lesson_focus with user_id and tab_id answers 404 and leaves the
\* collection unchanged when the user has no document or no entry of the tab.
\* Otherwise it succeeds: the list has the same tabs in the same places, the
\* entry of the tab has last_active equal to the time of the request and is
\* otherwise unchanged, every other entry is unchanged, and current_lesson is
\* the entry of the tab.
C10_UpdateLessonFocus ==
  (Answered("focus") /\ None \notin {trackResp.user_id, trackResp.tab_id}) =>
    IF CountOfTab(trackResp.pre, trackResp.user_id, trackResp.tab_id) = 0
    THEN trackResp.status = 404 /\ tracking = trackResp.pre
    ELSE /\ trackResp.status = 200
         /\ tracking[trackResp.user_id] # <<>>
         /\ Len(tracking[trackResp.user_id][1].active_lessons)
              = Len(trackResp.pre[trackResp.user_id][1].active_lessons)
         /\ \A i \in DOMAIN tracking[trackResp.user_id][1].active_lessons :
              IF trackResp.pre[trackResp.user_id][1].active_lessons[i].tab_id = trackResp.tab_id
              THEN /\ tracking[trackResp.user_id][1].active_lessons[i]
                        = [trackResp.pre[trackResp.user_id][1].active_lessons[i]
                             EXCEPT !.last_active = trackResp.at]
                   /\ tracking[trackResp.user_id][1].current_lesson
                        = tracking[trackResp.user_id][1].active_lessons[i]
              ELSE tracking[trackResp.user_id][1].active_lessons[i]
                     = trackResp.pre[trackResp.user_id][1].active_lessons[i]

\* Witness of C10: focus moves to a tab that was last active earlier and was
\* not the current one, with another tab open.
C10_Witness ==
  /\ Answered("focus")
  /\ trackResp.status = 200
  /\ trackResp.pre[trackResp.user_id][1].current_lesson.tab_id # trackResp.tab_id
  /\ \E e \in EntriesOf(trackResp.pre, trackResp.user_id) :
       e.tab_id = trackResp.tab_id /\ e.last_active < trackResp.at
  /\ Len(tracking[trackResp.user_id][1].active_lessons) >= 2

----------------------------------------------------------------------------
(* Properties of the series service *)

SerieAnswered(op) == serieResp # Idle /\ serieResp.op = op

\* The entry of a serie_subcribe list names the series of the request: both
\* are ids of the same series document.
NamesSerie(entry, serie_id) ==
  is_valid(entry) /\ is_valid(serie_id) /\ ObjectId(entry) = ObjectId(serie_id)

\* The user's document lists the series of the request.
Subscribes(users, user_id, serie_id) ==
  /\ user_id \in DOMAIN users
  /\ users[user_id] # <<>>
  /\ \E i \in DOMAIN users[user_id][1].serie_subcribe :
        NamesSerie(users[user_id][1].serie_subcribe[i], serie_id)

\* The request names a series that was stored when it arrived.
SerieStored ==
  /\ is_valid(serieResp.serie_id)
  /\ serieResp.pre.series[ObjectId(serieResp.serie_id)] # <<>>

\* C12: deleting a series that still has lessons is answered 400 with the
\* warning and leaves the series document, every user's subscription list, the
\* SNS topics and the thumbnails as they were.  Deleting a series without
\* lessons is answered 200: no user's serie_subcribe list names the series any
\* more, and the pull, then the deletion of the topic (when the series has
\* one), then the removal of the series document were issued in this order.
C12_DeleteSerie ==
  (SerieAnswered("delete") /\ SerieStored) =>
    IF Len(serieResp.pre.series[ObjectId(serieResp.serie_id)][1].serie_lessons) > 0
    THEN /\ serieResp.status = 400
         /\ serieResp.ret = "False"
         /\ SerieState = serieResp.pre
    ELSE /\ serieResp.status = 200
         /\ \A u \in SerieUsers : ~Subscribes(usersCol, u, serieResp.serie_id)
         /\ seriesCol[ObjectId(serieResp.serie_id)] = <<>>
         /\ IF serieResp.pre.series[ObjectId(serieResp.serie_id)][1].serie_sns # <<>>
            THEN SubSeq(serieResp.calls, 1, 3) = <<"update_many", "delete_topic", "delete_one">>
            ELSE SubSeq(serieResp.calls, 1, 2) = <<"update_many", "delete_one">>

\* C13: a subscribe by a user whose list already names the series returns
\* alreadySubscribed, changes neither the list nor serie_subcribe_num and issues
\* no SNS subscribe, so that a second subscribe_serie after a first one changes
\* nothing; an unsubscribe by a user whose list does not name the series leaves
\* the list and the counter as they were.
C13_SubscribeIdempotent ==
  /\ ( /\ SerieAnswered("subscribe")
       /\ serieResp.status # 400
       /\ SerieStored
       /\ serieResp.pre.series[ObjectId(serieResp.serie_id)][1].serie_sns # <<>>
       /\ Subscribes(serieResp.pre.users, serieResp.user_id, serieResp.serie_id) ) =>
        /\ serieResp.ret = "alreadySubscribed"
        /\ usersCol = serieResp.pre.users
        /\ seriesCol = serieResp.pre.series
        /\ serieResp.calls = <<>>
  /\ (SerieAnswered("subscribe") /\ serieResp.ret = "Subscribed") =>
        /\ subscribe_serie(SerieState, serieResp.serie_id, serieResp.user_id,
                           Email(serieResp.user_id)).ret = "alreadySubscribed"
        /\ subscribe_serie(SerieState, serieResp.serie_id, serieResp.user_id,
                           Email(serieResp.user_id)).st = SerieState
  /\ ( /\ SerieAnswered("unsubscribe")
       /\ ~Subscribes(serieResp.pre.users, serieResp.user_id, serieResp.serie_id) ) =>
        /\ usersCol = serieResp.pre.users
        /\ seriesCol = serieResp.pre.series

----------------------------------------------------------------------------
(* Properties of the user profile routes *)

UserAnswered(op) == userResp # Idle /\ userResp.op = op

\* C14: in the Flask blueprint and in the FastAPI router alike, a POST
\* /api/v1/users/profile without userId is answered 400 and creates nothing,
\* and one for a userId that already has a stored profile is answered 409 and
\* leaves the stored profiles as they were.
C14_CreateProfileConflict ==
  UserAnswered("create") =>
    IF userResp.body.userId = None
    THEN userResp.status = 400 /\ usersCol = userResp.pre
    ELSE userResp.pre[userResp.body.userId] # <<>> =>
           userResp.status = 409 /\ usersCol = userResp.pre

\* C15: PUT /api/v1/users/{user_id} changes a stored profile only when the
\* authenticated user is user_id; a request by another authenticated user is
\* answered 403 with the profiles unchanged, and a request by the user for a
\* profile that does not exist is answered 404 and creates no document.
C15_UpdateOwnProfileOnly ==
  UserAnswered("update") =>
    /\ usersCol # userResp.pre => userResp.caller = userResp.user_id
    /\ userResp.caller # userResp.user_id =>
          userResp.status = 403 /\ usersCol = userResp.pre
    /\ (userResp.caller = userResp.user_id /\ userResp.pre[userResp.user_id] = <<>>) =>
          userResp.status = 404 /\ usersCol = userResp.pre

----------------------------------------------------------------------------
(* Properties of the User Service proxy *)

\* C16: every request is forwarded to the User Service with the same method,
\* sub-path, query string and body and with every request header except Host,
\* Connection and Content-Length; the status and body of the upstream response
\* are returned; the answer is 503 when the upstream cannot be reached, 504 on
\* a timeout (503 or 504 when the connection itself timed out) and 500 on any
\* other error.
C16_ProxyPreserves ==
  proxyResp # Idle =>
    /\ proxyResp.forwarded.method = proxyResp.request.method
    /\ proxyResp.forwarded.path = proxyResp.request.path
    /\ proxyResp.forwarded.query = proxyResp.request.query
    /\ proxyResp.forwarded.body = proxyResp.request.body
    /\ proxyResp.forwarded.headers =
          proxyResp.request.headers \ {"Host", "Connection", "Content-Length"}
    /\ proxyResp.upstream.kind = "response" =>
          /\ proxyResp.status = proxyResp.upstream.status_code
          /\ proxyResp.content = "upstream-content"
    /\ proxyResp.upstream.kind = "ConnectionError" => proxyResp.status = 503
    /\ proxyResp.upstream.kind = "ReadTimeout" => proxyResp.status = 504
    /\ proxyResp.upstream.kind = "ConnectTimeout" => proxyResp.status \in {503, 504}
    /\ proxyResp.upstream.kind = "Exception" => proxyResp.status = 500


============================================================================
